---- MODULE Spec2Model ----
(***************************************************************************)
(* Model of appointment_booking/models/booking.py: the Booking entity, its *)
(* validation routine Booking.clean, and the validate-then-persist paths   *)
(* that create a booking or flip is_canceled / payment_status.             *)
(*                                                                         *)
(* Time is an integer number of seconds since a Monday 00:00:00.           *)
(* Strings that the code parses are sequences of one-character strings.    *)
(***************************************************************************)
EXTENDS Integers, Sequences, FiniteSets, TLC

VARIABLES store, nextId, now, seen, last, pc, pending

vars == <<store, nextId, now, seen, last, pc, pending>>

(***************************************************************************)
(* Bounds of the model.                                                    *)
(***************************************************************************)
MaxBookings == 2

(***************************************************************************)
(* Calendar arithmetic.                                                    *)
(***************************************************************************)
DaySeconds == 24 * 3600

At(day, h, m, s) == day * DaySeconds + h * 3600 + m * 60 + s

\* datetime.time(): the time of day, here in seconds since midnight
TimeOfDay(t) == t % DaySeconds

DayNames == <<"monday", "tuesday", "wednesday", "thursday", "friday",
              "saturday", "sunday">>

\* start_time.strftime('%A').lower()
day_of_week(t) == DayNames[((t \div DaySeconds) % 7) + 1]

(***************************************************************************)
(* datetime.strptime(s, "%I:%M%p").time()                                  *)
(* The format compiles to the case-insensitive regular expression          *)
(*   (1[0-2]|0[1-9]|[1-9]):([0-5]\d|\d)(am|pm)                             *)
(* which must consume the whole string; anything else is a ValueError.     *)
(***************************************************************************)
Digits == <<"0", "1", "2", "3", "4", "5", "6", "7", "8", "9">>

IsDigit(c) == \E i \in 1..10 : Digits[i] = c

DigitVal(c) == (CHOOSE i \in 1..10 : Digits[i] = c) - 1

\* %I : 1[0-2] | 0[1-9] | [1-9]
IsHour12(s) ==
    \/ /\ Len(s) = 2
       /\ \/ s[1] = "1" /\ s[2] \in {"0", "1", "2"}
          \/ s[1] = "0" /\ IsDigit(s[2]) /\ s[2] # "0"
    \/ /\ Len(s) = 1
       /\ IsDigit(s[1]) /\ s[1] # "0"

\* %M : [0-5]\d | \d
IsMinute(s) ==
    \/ /\ Len(s) = 2
       /\ s[1] \in {"0", "1", "2", "3", "4", "5"}
       /\ IsDigit(s[2])
    \/ /\ Len(s) = 1
       /\ IsDigit(s[1])

IsAM(s) == Len(s) = 2 /\ s[1] \in {"a", "A"} /\ s[2] \in {"m", "M"}

IsPM(s) == Len(s) = 2 /\ s[1] \in {"p", "P"} /\ s[2] \in {"m", "M"}

Number(s) == IF Len(s) = 1 THEN DigitVal(s[1])
             ELSE 10 * DigitVal(s[1]) + DigitVal(s[2])

\* the string splits as <i hour characters> ":" <m minute characters> <am|pm>
Matches(s, i, m) ==
    /\ Len(s) = i + m + 3
    /\ IsHour12(SubSeq(s, 1, i))
    /\ s[i + 1] = ":"
    /\ IsMinute(SubSeq(s, i + 2, i + 1 + m))
    /\ (IsAM(SubSeq(s, i + m + 2, i + m + 3)) \/ IsPM(SubSeq(s, i + m + 2, i + m + 3)))

\* 12AM is hour 0, 12PM is hour 12, other PM hours add 12
Hour24(h, pm) == IF pm THEN (IF h = 12 THEN 12 ELSE h + 12)
                 ELSE (IF h = 12 THEN 0 ELSE h)

\* the parsed time in seconds since midnight; ok = FALSE is the ValueError
\* strptime raises when the string does not match the format
strptime(s) ==
    IF \E i \in {1, 2}, m \in {1, 2} : Matches(s, i, m)
    THEN LET im == CHOOSE p \in {1, 2} \X {1, 2} : Matches(s, p[1], p[2])
             i  == im[1]
             m  == im[2]
             h  == Number(SubSeq(s, 1, i))
             mi == Number(SubSeq(s, i + 2, i + 1 + m))
             pm == IsPM(SubSeq(s, i + m + 2, i + m + 3))
         IN  [ok |-> TRUE, time |-> Hour24(h, pm) * 3600 + mi * 60]
    ELSE [ok |-> FALSE, time |-> 0]

(***************************************************************************)
(* The rows Booking.clean reads besides the bookings: the staff assigned   *)
(* to each service and each staff member's Staff_Times.working_hours.      *)
(***************************************************************************)
Str0900AM == <<"0", "9", ":", "0", "0", "A", "M">>
Str0500PM == <<"0", "5", ":", "0", "0", "P", "M">>
Str2500   == <<"2", "5", ":", "0", "0">>
Str9am    == <<"9", "a", "m">>
Str0900   == <<"0", "9", ":", "0", "0">>
StrEmpty  == <<>>

Services == {"svcA", "svcB", "svcNoStaff", "svcNoTimes", "svc2500",
             "svc9am", "svc0900", "svcEmpty", "svcNoEnd"}

\* Service.assigned_staffs; "None" is the null reference
assigned_staffs(svc) ==
    CASE svc = "svcA"       -> "anna"
      [] svc = "svcB"       -> "anna"
      [] svc = "svcNoStaff" -> "None"
      [] svc = "svcNoTimes" -> "bob"
      [] svc = "svc2500"    -> "carl"
      [] svc = "svc9am"     -> "dora"
      [] svc = "svc0900"    -> "emil"
      [] svc = "svcEmpty"   -> "fay"
      [] svc = "svcNoEnd"   -> "gus"

Hours(start, end) == [start |-> start, end |-> end]

\* Staff_Times rows: user -> working_hours (weekday name -> start/end strings)
Staff_Times ==
    [anna |-> [monday  |-> Hours(Str0900AM, Str0500PM)],
     carl |-> [monday  |-> Hours(Str2500, Str0500PM)],
     dora |-> [monday  |-> Hours(Str0900AM, Str9am)],
     emil |-> [monday  |-> Hours(Str0900, Str0500PM)],
     fay  |-> [monday  |-> Hours(StrEmpty, Str0500PM)],
     gus  |-> [monday  |-> [start |-> Str0900AM]]]

\* dict.get(key, "")
Get(d, key) == IF key \in DOMAIN d THEN d[key] ELSE StrEmpty

\* Order_Status_Choices values
Order_Status_Choices == {"pending", "paid", "failed"}

(***************************************************************************)
(* Booking.clean.  The outcome names what was raised, the field the error  *)
(* is keyed by ("__all__" for a ValidationError raised with no field) and  *)
(* the message.                                                            *)
(***************************************************************************)
ToleranceSeconds == 20

Accepted == [raised |-> "none", field |-> "none", message |-> "none"]

FieldError(f, msg) ==
    [raised |-> "ValidationError", field |-> f, message |-> msg]

\* ValidationError(message, code = 'invalid'): no field
PlainError(msg) ==
    [raised |-> "ValidationError", field |-> "__all__", message |-> msg]

\* an exception that is not a ValidationError leaves clean
Uncaught(exc) ==
    [raised |-> exc, field |-> "none", message |-> "does not match format"]

MsgOrder    == "Start time must be before end time."
MsgPast     == "Start time must be at least 20 seconds in the future."
MsgOverlap  == "This booking overlaps with an existing booking for the same service."
MsgNoStaff  == "No staff is assigned to this service."
MsgNoTimes  == "Working hours for the assigned staff are not defined."
MsgNoDay    == "Working hours for this day are not defined."
MsgPartial  == "Working hours are incomplete for this day."
MsgOutside  == "Booking times must be within the working hours of the assigned staff."
MsgStatus   == "The status of the booking must be one of the choices."

\* variant: start_time > end_time, an empty interval passes
TimeOrderStrict(b) == b.start_time > b.end_time

\* self.start_time >= self.end_time
TimeOrderFails(b) == b.start_time >= b.end_time

\* timezone.now() - timedelta(seconds = 20)
future_time(n) == n - ToleranceSeconds

\* variant: start_time <= future_time, a start exactly 20 s back is refused
NearPastInclusive(b, n) == b.start_time <= future_time(n)

\* self.start_time < future_time
NearPastFails(b, n) == b.start_time < future_time(n)

\* variant: start_time__lte / end_time__gte, touching intervals clash
overlapping_bookings_inclusive(b, st) ==
    {e \in st : /\ e.service_id = b.service_id
                /\ e.start_time <= b.end_time
                /\ e.end_time >= b.start_time
                /\ e.id # b.id}

\* variant: only rows lying inside the new interval clash
overlapping_bookings_contained(b, st) ==
    {e \in st : /\ e.service_id = b.service_id
                /\ e.start_time >= b.start_time
                /\ e.end_time <= b.end_time
                /\ e.id # b.id}

\* variant: canceled rows are left out of the query
overlapping_bookings_active(b, st) ==
    {e \in st : /\ e.service_id = b.service_id
                /\ e.start_time < b.end_time
                /\ e.end_time > b.start_time
                /\ ~e.is_canceled
                /\ e.id # b.id}

\* Booking.objects.filter(service_id, start_time__lt, end_time__gt).exclude(id)
overlapping_bookings(b, st) ==
    {e \in st : /\ e.service_id = b.service_id
                /\ e.start_time < b.end_time
                /\ e.end_time > b.start_time
                /\ e.id # b.id}

\* variant: the staff check never fires
NoStaffIgnored(b) == FALSE

\* not assigned_staff
NoStaff(b) == assigned_staffs(b.service_id) = "None"

\* not (start <= booking_start <= end) or not (start <= booking_end <= end)
OutsideHours(b, start_time, end_time) ==
    \/ ~(start_time <= TimeOfDay(b.start_time) /\ TimeOfDay(b.start_time) <= end_time)
    \/ ~(start_time <= TimeOfDay(b.end_time) /\ TimeOfDay(b.end_time) <= end_time)

\* the part of clean from the working-hours lookup on
CleanHours(b, working_hours) ==
    IF day_of_week(b.start_time) \notin DOMAIN working_hours
    THEN FieldError("start_time", MsgNoDay)
    ELSE LET day_times == working_hours[day_of_week(b.start_time)]
             start_str == Get(day_times, "start")
             end_str   == Get(day_times, "end")
             start_time == strptime(start_str)
             end_time   == strptime(end_str)
         IN  IF start_str = StrEmpty \/ end_str = StrEmpty
             THEN FieldError("start_time", MsgPartial)
             ELSE IF ~start_time.ok \/ ~end_time.ok
             THEN Uncaught("ValueError")
             ELSE IF OutsideHours(b, start_time.time, end_time.time)
             THEN FieldError("start_time", MsgOutside)
             ELSE IF b.payment_status \notin Order_Status_Choices
             THEN PlainError(MsgStatus)
             ELSE Accepted

\* variant: the staff checks run before the time and overlap checks
CleanStaffFirst(b, st, n) ==
    IF NoStaff(b)
    THEN FieldError("service_id", MsgNoStaff)
    ELSE IF assigned_staffs(b.service_id) \notin DOMAIN Staff_Times
    THEN FieldError("service_id", MsgNoTimes)
    ELSE IF TimeOrderFails(b)
    THEN FieldError("start_time", MsgOrder)
    ELSE IF NearPastFails(b, n)
    THEN FieldError("start_time", MsgPast)
    ELSE IF overlapping_bookings(b, st) # {}
    THEN FieldError("start_time", MsgOverlap)
    ELSE CleanHours(b, Staff_Times[assigned_staffs(b.service_id)])

Clean(b, st, n) ==
    IF TimeOrderFails(b)
    THEN FieldError("start_time", MsgOrder)
    ELSE IF NearPastFails(b, n)
    THEN FieldError("start_time", MsgPast)
    ELSE IF overlapping_bookings(b, st) # {}
    THEN FieldError("start_time", MsgOverlap)
    ELSE IF NoStaff(b)
    THEN FieldError("service_id", MsgNoStaff)
    ELSE IF assigned_staffs(b.service_id) \notin DOMAIN Staff_Times
    THEN FieldError("service_id", MsgNoTimes)
    ELSE CleanHours(b, Staff_Times[assigned_staffs(b.service_id)])

(***************************************************************************)
(* The database check constraints of Booking.Meta: a row violating one is  *)
(* refused by the database (IntegrityError) and not written.               *)
(***************************************************************************)
start_time_before_end_time(b) == b.start_time < b.end_time

valid_payment_status_booking(b) == b.payment_status \in Order_Status_Choices

Constraints(b) == start_time_before_end_time(b) /\ valid_payment_status_booking(b)

(***************************************************************************)
(* Inputs.                                                                 *)
(***************************************************************************)
Weekday(name) == (CHOOSE i \in 1..7 : DayNames[i] = name) - 1

Mon == Weekday("monday")
Tue == Weekday("tuesday")

Interval(s, e) == [start_time |-> s, end_time |-> e]

InHours   == Interval(At(Mon, 10, 0, 0), At(Mon, 10, 30, 0))
Next30    == Interval(At(Mon, 10, 30, 0), At(Mon, 11, 0, 0))
WholeDay  == Interval(At(Mon, 9, 0, 0), At(Mon, 17, 0, 0))
Early     == Interval(At(Mon, 8, 0, 0), At(Mon, 8, 30, 0))
StartsEarly == Interval(At(Mon, 8, 30, 0), At(Mon, 10, 0, 0))
EndsLate  == Interval(At(Mon, 11, 0, 0), At(Mon, 17, 30, 0))
Overnight == Interval(At(Mon, 10, 0, 0), At(Tue, 10, 30, 0))
NextDay   == Interval(At(Tue, 10, 0, 0), At(Tue, 10, 30, 0))
Empty     == Interval(At(Mon, 10, 30, 0), At(Mon, 10, 30, 0))
Backwards == Interval(At(Mon, 11, 0, 0), At(Mon, 10, 0, 0))
Started   == Interval(At(Mon, 10, 0, 10), At(Mon, 17, 30, 0))
JustPast  == Interval(At(Mon, 9, 59, 59), At(Mon, 10, 30, 0))

Intervals == {InHours, Next30, WholeDay, Early, StartsEarly, EndsLate,
              Overnight, NextDay, Empty, Backwards, Started, JustPast}

Request(svc, iv, pay) ==
    [service_id |-> svc, start_time |-> iv.start_time, end_time |-> iv.end_time,
     payment_status |-> pay]

\* the submissions a client may make
Candidates ==
    {Request("svcA", iv, "pending") : iv \in Intervals}
    \cup {Request("svcA", iv, "bogus") : iv \in {InHours, WholeDay, Empty}}
    \cup {Request("svcB", InHours, pay) : pay \in {"pending", "bogus"}}
    \cup {Request("svcNoStaff", iv, "pending") :
             iv \in {InHours, WholeDay, Early, Overnight, Empty, Backwards}}
    \cup {Request("svcNoStaff", iv, "bogus") : iv \in {InHours, Empty}}
    \cup {Request(svc, iv, "pending") : svc \in Services \ {"svcA", "svcB", "svcNoStaff"},
                                        iv \in {InHours, NextDay}}

\* the values timezone.now() takes, in order
Clock == <<At(Mon, 7, 0, 0), At(Mon, 10, 0, 20)>>

Clients == {"c1", "c2"}

\* the submissions of the two racing clients
RaceCandidates ==
    {Request("svcA", iv, "pending") : iv \in {InHours, Next30, WholeDay}}
    \cup {Request("svcB", InHours, "pending"), Request("svcNoStaff", InHours, "pending"),
          Request("svcA", Backwards, "pending")}

(***************************************************************************)
(* State.                                                                  *)
(*   store    the rows of the bookings table                               *)
(*   nextId   the next primary key                                         *)
(*   now      the current time                                             *)
(*   seen     seen[id]: how many rows had been written when the row id     *)
(*            was validated for its creation                               *)
(*   last     the last call of clean: the operation and the outcome       *)
(*   pc, pending   each racing client's position and validated instance    *)
(***************************************************************************)
NewBooking(c) ==
    [id |-> 0, service_id |-> c.service_id, start_time |-> c.start_time,
     end_time |-> c.end_time, is_canceled |-> FALSE,
     payment_status |-> c.payment_status]

NoCall == [op |-> "none", result |-> Accepted]

Called(op, res) == [op |-> op, result |-> res]

Idle == [b |-> NewBooking(Request("svcA", InHours, "pending")), seen |-> 0]

Init ==
    /\ store = {}
    /\ nextId = 1
    /\ now = Clock[1]
    /\ seen = <<>>
    /\ last = NoCall
    /\ pc = [c \in Clients |-> "idle"]
    /\ pending = [c \in Clients |-> Idle]

\* validate a new booking and, when clean accepts it, save it (INSERT)
Create(c) ==
    LET b   == NewBooking(c)
        res == Clean(b, store, now)
        row == [b EXCEPT !.id = nextId]
    IN  IF res = Accepted /\ Constraints(b)
        THEN /\ Cardinality(store) < MaxBookings
             /\ store' = store \cup {row}
             /\ nextId' = nextId + 1
             /\ seen' = Append(seen, nextId - 1)
             /\ last' = Called("create", res)
             /\ UNCHANGED <<now, pc, pending>>
        ELSE /\ last' = Called("create", res)
             /\ UNCHANGED <<store, nextId, now, seen, pc, pending>>

\* validate a changed instance of a stored row and, when accepted, save it (UPDATE)
Update(op, e, b) ==
    LET res == Clean(b, store, now)
    IN  /\ last' = Called(op, res)
        /\ store' = IF res = Accepted /\ Constraints(b)
                    THEN (store \ {e}) \cup {b} ELSE store
        /\ UNCHANGED <<nextId, now, seen, pc, pending>>

\* flip is_canceled
SetCanceled(e) ==
    /\ e \in store
    /\ Update("cancel", e, [e EXCEPT !.is_canceled = ~e.is_canceled])

\* change payment_status
SetPayment(e, p) ==
    /\ e \in store
    /\ p # e.payment_status
    /\ Update("pay", e, [e EXCEPT !.payment_status = p])

\* time passes
Tick ==
    /\ \E i \in 1..(Len(Clock) - 1) : now = Clock[i] /\ now' = Clock[i + 1]
    /\ UNCHANGED <<store, nextId, seen, last, pc, pending>>

Next ==
    \/ \E c \in Candidates : Create(c)
    \/ \E e \in store : SetCanceled(e)
    \/ \E e \in store, p \in {"paid", "bogus"} : SetPayment(e, p)
    \/ Tick

Spec == Init /\ [][Next]_vars

(***************************************************************************)
(* Two clients that validate and save in separate steps, with nothing      *)
(* held between the two (clean takes no lock and opens no transaction),    *)
(* next to submissions whose validate-then-save runs as one step.          *)
(***************************************************************************)
Validate(cl, c) ==
    LET b   == NewBooking(c)
        res == Clean(b, store, now)
    IN  /\ pc[cl] = "idle"
        /\ last' = Called("create", res)
        /\ IF res = Accepted
           THEN /\ pc' = [pc EXCEPT ![cl] = "validated"]
                /\ pending' = [pending EXCEPT ![cl] = [b |-> b, seen |-> nextId - 1]]
           ELSE UNCHANGED <<pc, pending>>
        /\ UNCHANGED <<store, nextId, now, seen>>

Persist(cl) ==
    /\ pc[cl] = "validated"
    /\ Cardinality(store) < MaxBookings
    /\ IF Constraints(pending[cl].b)
       THEN /\ store' = store \cup {[pending[cl].b EXCEPT !.id = nextId]}
            /\ nextId' = nextId + 1
            /\ seen' = Append(seen, pending[cl].seen)
       ELSE UNCHANGED <<store, nextId, seen>>
    /\ pc' = [pc EXCEPT ![cl] = "idle"]
    /\ pending' = [pending EXCEPT ![cl] = Idle]
    /\ UNCHANGED <<now, last>>

NextRace ==
    \/ \E c \in RaceCandidates : Create(c)
    \/ \E cl \in Clients, c \in RaceCandidates : Validate(cl, c)
    \/ \E cl \in Clients : Persist(cl)
    \/ Tick

SpecRace == Init /\ [][NextRace]_vars

(***************************************************************************)
(* Properties.  Outcome(c) is what clean answers, in the current state, to *)
(* a new booking made from the submission c; Revalidated(e) is what it     *)
(* answers to the stored row e with is_canceled flipped.                   *)
(***************************************************************************)
Outcome(c) == Clean(NewBooking(c), store, now)

Revalidated(e) == Clean([e EXCEPT !.is_canceled = ~e.is_canceled], store, now)

Rejects(r, f, msg) ==
    r.raised = "ValidationError" /\ r.field = f /\ r.message = msg

\* the intervals [start, end) of a and b share an instant
Overlap(a, b) == a.start_time < b.end_time /\ a.end_time > b.start_time

Touching(a, b) == a.start_time = b.end_time \/ a.end_time = b.start_time

\* c passes the time-order and the near-past checks
PassesTimes(c) == c.start_time < c.end_time /\ c.start_time >= now - 20

\* c passes the time-order, near-past and overlap checks
PassesOverlap(c) ==
    /\ PassesTimes(c)
    /\ ~\E e \in store : e.service_id = c.service_id /\ Overlap(e, c)

\* C1: a new booking is rejected with the overlap error exactly when it
\* passes the two time checks and a stored booking of the same service
\* overlaps it; touching intervals and bookings of other services never
\* cause it, and a stored booking that is validated again is rejected for
\* overlap only because of a row with another id.
OverlapRule ==
    /\ \A c \in Candidates :
          /\ Rejects(Outcome(c), "start_time", MsgOverlap)
                <=> /\ PassesTimes(c)
                    /\ \E e \in store : e.service_id = c.service_id /\ Overlap(e, c)
          /\ (\A e \in store : e.service_id = c.service_id => Touching(e, c) \/ ~Overlap(e, c))
                => Outcome(c).message # MsgOverlap
          /\ (\A e \in store : e.service_id # c.service_id)
                => Outcome(c).message # MsgOverlap
    /\ \A e \in store :
          Revalidated(e).message = MsgOverlap
             => \E o \in store : o.id # e.id /\ o.service_id = e.service_id /\ Overlap(o, e)

\* two touching bookings of one service are stored, next to a booking of
\* another service, and the last submission was rejected for overlap
OverlapWitness ==
    /\ last.op = "create"
    /\ Rejects(last.result, "start_time", MsgOverlap)
    /\ \E a \in store, b \in store :
          a.service_id = b.service_id /\ a.end_time = b.start_time

\* the working hours of the staff of svcA and svcB on the day d
DayOpens(d)  == At(d, 9, 0, 0)
DayCloses(d) == At(d, 17, 0, 0)

\* the whole interval of c lies in the working hours of the day it starts on
WithinHours(c) ==
    /\ DayOpens(c.start_time \div DaySeconds) <= c.start_time
    /\ c.end_time <= DayCloses(c.start_time \div DaySeconds)

\* C2: a booking of svcA or svcB that starts on a Monday and passes the
\* checks before the working-hours check is not rejected by that check when
\* its interval lies within Monday's working hours, and no booking with a
\* part of its interval outside them is accepted, so none is stored.
HoursRule ==
    /\ \A c \in Candidates :
          /\ c.service_id \in {"svcA", "svcB"}
          /\ day_of_week(c.start_time) = "monday"
          /\ PassesOverlap(c)
          /\ WithinHours(c)
          => Outcome(c).message # MsgOutside
    /\ \A e \in store : WithinHours(e)

\* C3: every stored booking starts before it ends, and clean answers every
\* submission with start_time >= end_time with the start_time error.
StartBeforeEnd ==
    /\ \A e \in store : e.start_time < e.end_time
    /\ \A c \in Candidates :
          c.start_time >= c.end_time => Rejects(Outcome(c), "start_time", MsgOrder)

\* a submission was rejected for its time order while rows, one of them
\* changed since its creation, are stored
StartBeforeEndWitness ==
    /\ last.op = "create"
    /\ Rejects(last.result, "start_time", MsgOrder)
    /\ \E e \in store : e.is_canceled \/ e.payment_status = "paid"

FieldScoped ==
    last.result # Accepted
    => last.result.raised = "ValidationError" /\ last.result.field # "__all__"

\* the start and end strings of the staff of c on the day c starts, or the
\* empty string where there is none
HoursString(c, key) ==
    LET wh == Staff_Times[assigned_staffs(c.service_id)]
    IN  Get(wh[day_of_week(c.start_time)], key)

HasHoursEntry(c) ==
    /\ assigned_staffs(c.service_id) \in DOMAIN Staff_Times
    /\ day_of_week(c.start_time) \in DOMAIN Staff_Times[assigned_staffs(c.service_id)]

WellFormedHours == {Str0900AM, Str0500PM}

\* C6: a booking that reaches the working-hours entry of its day, where the
\* start or end string is missing, empty or not in "hh:mmAM/PM" format, is
\* never accepted, and no call of clean ends in anything but an acceptance
\* or a ValidationError.
BadHoursRejected ==
    /\ \A c \in Candidates :
          /\ PassesOverlap(c)
          /\ HasHoursEntry(c)
          /\ \E key \in {"start", "end"} : HoursString(c, key) \notin WellFormedHours
          => Outcome(c) # Accepted
    /\ last.result.raised \in {"none", "ValidationError"}

\* the checks of clean as the specification lists them, each with the
\* condition under which it fails and the message it reports
Staff(c) == assigned_staffs(c.service_id)

Fails(k, c) ==
    CASE k = 1 -> c.start_time >= c.end_time
      [] k = 2 -> c.start_time < now - 20
      [] k = 3 -> \E e \in store : e.service_id = c.service_id /\ Overlap(e, c)
      [] k = 4 -> Staff(c) = "None"
      [] k = 5 -> Staff(c) # "None" /\ Staff(c) \notin DOMAIN Staff_Times
      [] k = 6 -> Staff(c) \in DOMAIN Staff_Times /\ ~HasHoursEntry(c)
      [] k = 7 -> /\ HasHoursEntry(c)
                  /\ \E key \in {"start", "end"} : HoursString(c, key) \notin WellFormedHours
      [] k = 8 -> /\ HasHoursEntry(c)
                  /\ \A key \in {"start", "end"} : HoursString(c, key) \in WellFormedHours
                  /\ \/ TimeOfDay(c.start_time) \notin DayOpens(0)..DayCloses(0)
                     \/ TimeOfDay(c.end_time) \notin DayOpens(0)..DayCloses(0)
      [] k = 9 -> c.payment_status \notin {"pending", "paid", "failed"}

Reports(k) ==
    CASE k = 1 -> {MsgOrder}
      [] k = 2 -> {MsgPast}
      [] k = 3 -> {MsgOverlap}
      [] k = 4 -> {MsgNoStaff}
      [] k = 5 -> {MsgNoTimes}
      [] k = 6 -> {MsgNoDay}
      [] k = 7 -> {MsgPartial, "does not match format"}
      [] k = 8 -> {MsgOutside}
      [] k = 9 -> {MsgStatus}

\* C7: clean reports the lowest-numbered failing check and nothing else: a
\* booking is accepted only if none of the nine checks fails, and otherwise
\* the outcome is that of the first check that fails.
CheckOrder ==
    \A c \in Candidates :
        LET failing == {k \in 1..9 : Fails(k, c)}
            outcome == Outcome(c)
        IN  /\ outcome = Accepted <=> failing = {}
            /\ \A k \in failing :
                  (\A j \in failing : k <= j) => outcome.message \in Reports(k)
            /\ c.start_time >= c.end_time /\ Staff(c) = "None"
                  => Rejects(outcome, "start_time", MsgOrder)
            /\ 3 \in failing /\ 9 \in failing /\ PassesTimes(c)
                  => Rejects(outcome, "start_time", MsgOverlap)

\* the last submission was rejected for overlap while a submission that
\* overlaps a stored booking and has an invalid payment_status exists
CheckOrderWitness ==
    /\ last.op = "create"
    /\ Rejects(last.result, "start_time", MsgOverlap)
    /\ \E c \in Candidates : Fails(3, c) /\ Fails(9, c) /\ PassesTimes(c)

\* C8: a booking of a service with no assigned staff is never accepted, and
\* is rejected on service_id when it passes the time and overlap checks; so
\* is a booking whose assigned staff has no working-hours record.
NoStaffRejected ==
    \A c \in Candidates :
        /\ Staff(c) = "None" => Outcome(c) # Accepted
        /\ Staff(c) = "None" /\ PassesOverlap(c)
              => Rejects(Outcome(c), "service_id", MsgNoStaff)
        /\ Staff(c) # "None" /\ Staff(c) \notin DOMAIN Staff_Times /\ PassesOverlap(c)
              => Rejects(Outcome(c), "service_id", MsgNoTimes)

\* the last submission was rejected for its service having no staff, with
\* bookings of other services stored
NoStaffWitness ==
    /\ last.op = "create"
    /\ Rejects(last.result, "service_id", MsgNoStaff)
    /\ store # {}

\* C9: two stored bookings of one service overlap only if the later one was
\* validated before the earlier one was written; a booking validated after
\* the other was written (as when validate-then-save runs as one step)
\* never overlaps it.
RaceOnly ==
    \A a \in store, b \in store :
        a.id < b.id /\ a.service_id = b.service_id /\ Overlap(a, b)
        => seen[b.id] < a.id

\* both clients validated before either saved: two overlapping bookings of
\* one service are stored
RaceWitness ==
    \E a \in store, b \in store :
        /\ a.id < b.id /\ a.service_id = b.service_id /\ Overlap(a, b)
        /\ seen[a.id] = 0 /\ seen[b.id] = 0

\* C10: a new booking that passes the time checks and overlaps a stored,
\* canceled booking of the same service is rejected with the overlap error.
CanceledStillBlocks ==
    \A e \in store, c \in Candidates :
        /\ e.is_canceled
        /\ e.service_id = c.service_id
        /\ Overlap(e, c)
        /\ PassesTimes(c)
        => Rejects(Outcome(c), "start_time", MsgOverlap)

\* every stored booking is canceled and the last submission was rejected
\* for overlap
CanceledWitness ==
    /\ store # {}
    /\ \A e \in store : e.is_canceled
    /\ last.op = "create"
    /\ Rejects(last.result, "start_time", MsgOverlap)

====
